---- MODULE Spec2Model ----
(***************************************************************************)
(* Verification model of the Elastos side chain transaction admission core *)
(*   blockchain/DBCache.go      the staged state cache over the key/value  *)
(*                              store (write-set, read-through, Commit)    *)
(*   blockchain/txvalidator.go  the sanity and context checks              *)
(*   mempool FeeHelper          the per-asset fee map                      *)
(* Two groups of specifications share the module: SpecCache drives the     *)
(* cache, the others drive the validator on transactions drawn from        *)
(* bounded families.                                                       *)
(***************************************************************************)
EXTENDS Integers, Sequences, FiniteSets, TLC

VARIABLES
    \* the staged state cache
    writeSet, store, batch, last, calls,
    \* the validator: the transaction under check and the verdicts on it
    txn, sanity, context, feeErr, feeMap, fee,
    \* the ledger: for every committed transaction its hash and the hash of the
    \* main chain transaction its recharge payload embeds (none for the other kinds)
    chain

cacheVars == <<writeSet, store, batch, last, calls>>

txVars == <<txn, sanity, context, feeErr, feeMap, fee, chain>>

vars == <<cacheVars, txVars>>

(***************************************************************************)
(* Part I.  The staged state cache (blockchain/DBCache.go)                 *)
(***************************************************************************)

\* Go's nil (a nil interface value, a nil error).
NIL == "nil"

\* The result of a call that has not been made yet.
Pending == [pending |-> TRUE]

\* The storage prefixes (DataEntryPrefix bytes), the keys and the state
\* values the sessions of the model use.
Prefixes == {"ST_Contract", "ST_Storage"}
Keys == {"k1", "k2"}
StateValues == {"a", "b"}

\* The most batched operations the store holds before it applies them.
MaxBatch == 3

\* The most operations one run of the cache model performs.
MaxCalls == 4

ErrDBNotFound == "leveldb: not found"
ErrIO == "io error"

\* The prefix RWSet.Delete gives an entry it has to create.
DeletePrefix == "ST_Contract"

\* Item.Serialize: the bytes of a state value.
Serialize(item) == <<"len1", item>>

\* states.GetStateValue: the state value of the prefix's kind read from bytes.
GetStateValue(prefix, bytes) == bytes[2]

\* append([]byte{byte(prefix)}, []byte(key)...): one prefix byte, then the key.
StoreKey(prefix, key) == <<prefix, key>>

\* IStore.Get: the stored bytes, ErrDBNotFound for an absent key, or an I/O
\* error of the storage engine (fault).
StoreGet(st, k, fault) ==
    IF fault THEN [value |-> NIL, err |-> ErrIO]
    ELSE IF k \in DOMAIN st THEN [value |-> st[k], err |-> NIL]
    ELSE [value |-> NIL, err |-> ErrDBNotFound]

TryGetInternal(st, prefix, key, fault) ==
    LET r == StoreGet(st, StoreKey(prefix, key), fault) IN
    IF r.err # NIL THEN [item |-> NIL, err |-> r.err]
    ELSE [item |-> GetStateValue(prefix, r.value), err |-> NIL]

\* DBCache.TryGet: the entry's Item when the write-set holds the key (the
\* tombstone flag is not read), else the store's value.
TryGet(ws, st, prefix, key, fault) ==
    IF key \in DOMAIN ws THEN [item |-> ws[key].Item, err |-> NIL]
    ELSE TryGetInternal(st, prefix, key, fault)

\* f with key k bound to v (k added to the domain when new).
MapPut(f, k, v) == [x \in (DOMAIN f) \cup {k} |-> IF x = k THEN v ELSE f[x]]

MapDel(f, k) == [x \in (DOMAIN f) \ {k} |-> f[x]]

EmptyMap == [x \in {} |-> NIL]

\* A GetOrAdd that leaves a tombstoned entry as it is.
GetOrAddNoRevive(ws, st, prefix, key, value, fault) ==
    IF key \in DOMAIN ws
    THEN [ws |-> ws, item |-> ws[key].Item, err |-> NIL]
    ELSE LET r == TryGetInternal(st, prefix, key, fault) IN
         IF r.err # NIL /\ r.err # ErrDBNotFound
         THEN [ws |-> ws, item |-> NIL, err |-> r.err]
         ELSE LET w == [Prefix |-> prefix, Key |-> key,
                        Item |-> IF r.item = NIL THEN value ELSE r.item,
                        IsDeleted |-> FALSE] IN
              [ws |-> MapPut(ws, key, w), item |-> w.Item, err |-> NIL]

\* DBCache.GetOrAdd: the resulting write-set, the returned item and error.
GetOrAdd(ws, st, prefix, key, value, fault) ==
    IF key \in DOMAIN ws
    THEN LET v == ws[key]
             w == IF v.IsDeleted
                  THEN [v EXCEPT !.Item = value, !.IsDeleted = FALSE]
                  ELSE v IN
         [ws |-> MapPut(ws, key, w), item |-> w.Item, err |-> NIL]
    ELSE LET r == TryGetInternal(st, prefix, key, fault) IN
         IF r.err # NIL /\ r.err # ErrDBNotFound
         THEN [ws |-> ws, item |-> NIL, err |-> r.err]
         ELSE LET w == [Prefix |-> prefix, Key |-> key,
                        Item |-> IF r.item = NIL THEN value ELSE r.item,
                        IsDeleted |-> FALSE] IN
              [ws |-> MapPut(ws, key, w), item |-> w.Item, err |-> NIL]

\* RWSet.Delete: the entry of key is marked deleted; a key without an entry
\* gets a tombstone entry.
RWSetDelete(ws, key) ==
    IF key \in DOMAIN ws
    THEN [ws EXCEPT ![key].IsDeleted = TRUE]
    ELSE MapPut(ws, key, [Prefix |-> DeletePrefix, Key |-> key,
                          Item |-> NIL, IsDeleted |-> TRUE])

\* A Commit body that writes every entry, tombstoned or not.
CommitOpPutsTombstone(w) ==
    [kind |-> "BatchPut", key |-> StoreKey(w.Prefix, w.Key),
     value |-> Serialize(w.Item)]

\* The body of Commit's loop: the batched operation issued for one entry.
CommitOp(w) ==
    IF w.IsDeleted
    THEN [kind |-> "BatchDelete", key |-> StoreKey(w.Prefix, w.Key), value |-> <<>>]
    ELSE [kind |-> "BatchPut", key |-> StoreKey(w.Prefix, w.Key),
          value |-> Serialize(w.Item)]

\* The orders in which Go may range over the map: the sequences that hold
\* every key of S once.
Orders(S) ==
    {o \in [1..Cardinality(S) -> S] : \A i, j \in 1..Cardinality(S) : o[i] = o[j] => i = j}

\* The store applying its batch, in order.
RECURSIVE ApplyBatch(_, _)
ApplyBatch(st, ops) ==
    IF ops = <<>> THEN st
    ELSE LET op == Head(ops) IN
         ApplyBatch(IF op.kind = "BatchPut" THEN MapPut(st, op.key, op.value)
                    ELSE MapDel(st, op.key),
                    Tail(ops))

\* What the last call was, what it returned, and the state it was made in.
Call(op, prefix, key, value, fault, item, err) ==
    [op |-> op, prefix |-> prefix, key |-> key, value |-> value, fault |-> fault,
     item |-> item, err |-> err, prev |-> last.op,
     ws |-> writeSet, st |-> store, bt |-> batch]

\* One more call of the run.
Tick == calls < MaxCalls /\ calls' = calls + 1 /\ UNCHANGED txVars

\* The validator at rest: no transaction under check, an empty ledger.
IdleValidator ==
    /\ txn = NIL /\ sanity = NIL /\ context = NIL
    /\ feeErr = Pending /\ feeMap = Pending /\ fee = Pending
    /\ chain = <<>>

InitCache ==
    /\ IdleValidator
    /\ writeSet = EmptyMap
    /\ store \in {EmptyMap, [x \in {StoreKey("ST_Contract", "k1")} |-> Serialize("b")]}
    /\ batch = <<>>
    /\ last = [op |-> "none", prefix |-> NIL, key |-> NIL, value |-> NIL,
               fault |-> FALSE, item |-> NIL, err |-> NIL, prev |-> "none",
               ws |-> EmptyMap, st |-> EmptyMap, bt |-> <<>>]
    /\ calls = 0

\* NewDBCache: a fresh session over the same store.
NewDBCache ==
    /\ writeSet' = EmptyMap
    /\ last' = Call("NewDBCache", NIL, NIL, NIL, FALSE, NIL, NIL)
    /\ UNCHANGED <<store, batch>>
    /\ Tick

CallGetOrAdd(prefix, key, value, fault) ==
    LET r == GetOrAdd(writeSet, store, prefix, key, value, fault) IN
    /\ writeSet' = r.ws
    /\ last' = Call("GetOrAdd", prefix, key, value, fault, r.item, r.err)
    /\ UNCHANGED <<store, batch>>
    /\ Tick

CallTryGet(prefix, key, fault) ==
    LET r == TryGet(writeSet, store, prefix, key, fault) IN
    /\ last' = Call("TryGet", prefix, key, NIL, fault, r.item, r.err)
    /\ UNCHANGED <<writeSet, store, batch>>
    /\ Tick

\* DBCache.Suicide: delete the key of the code hash; always true.
Suicide(key) ==
    /\ writeSet' = RWSetDelete(writeSet, key)
    /\ last' = Call("Suicide", NIL, key, NIL, FALSE, NIL, NIL)
    /\ UNCHANGED <<store, batch>>
    /\ Tick

\* DBCache.Commit: one batched operation per entry of the write-set, in the
\* order the map iteration happens to take; the write-set is left as it is.
Commit ==
    /\ Len(batch) + Cardinality(DOMAIN writeSet) <= MaxBatch
    /\ \E o \in Orders(DOMAIN writeSet) :
          batch' = batch \o [i \in 1..Len(o) |-> CommitOp(writeSet[o[i]])]
    /\ last' = Call("Commit", NIL, NIL, NIL, FALSE, NIL, NIL)
    /\ UNCHANGED <<writeSet, store>>
    /\ Tick

\* The store applies the whole batch atomically.
BatchCommit ==
    /\ batch # <<>>
    /\ store' = ApplyBatch(store, batch)
    /\ batch' = <<>>
    /\ last' = Call("BatchCommit", NIL, NIL, NIL, FALSE, NIL, NIL)
    /\ UNCHANGED writeSet
    /\ Tick

NextCache ==
    \/ NewDBCache
    \/ \E p \in Prefixes, k \in Keys, v \in StateValues, f \in BOOLEAN :
          CallGetOrAdd(p, k, v, f)
    \/ \E p \in Prefixes, k \in Keys, f \in BOOLEAN : CallTryGet(p, k, f)
    \/ \E k \in Keys : Suicide(k)
    \/ Commit
    \/ BatchCommit

SpecCache == InitCache /\ [][NextCache]_vars

(***************************************************************************)
(* Part II.  The transaction validator (blockchain/txvalidator.go)         *)
(***************************************************************************)

\* ------------------------------------------------------------ error codes
Success == "Success"
ErrTransactionSize == "ErrTransactionSize"
ErrInvalidInput == "ErrInvalidInput"
ErrInvalidOutput == "ErrInvalidOutput"
ErrAssetPrecision == "ErrAssetPrecision"
ErrAttributeProgram == "ErrAttributeProgram"
ErrTransactionPayload == "ErrTransactionPayload"
ErrTxHashDuplicate == "ErrTxHashDuplicate"
ErrTransactionSignature == "ErrTransactionSignature"
ErrRechargeToSideChain == "ErrRechargeToSideChain"
ErrDoubleSpend == "ErrDoubleSpend"
ErrUTXOLocked == "ErrUTXOLocked"
ErrTransactionBalance == "ErrTransactionBalance"
ErrUnknownReferedTxn == "ErrUnknownReferedTxn"
ErrInvalidReferedTxn == "ErrInvalidReferedTxn"
ErrIneffectiveCoinbase == "ErrIneffectiveCoinbase"

\* ------------------------------------------------------ transaction kinds
CoinBase == "CoinBase"
RegisterAsset == "RegisterAsset"
TransferAsset == "TransferAsset"
Record == "Record"
RechargeToSideChain == "RechargeToSideChain"
TransferCrossChainAsset == "TransferCrossChainAsset"
RegisterIdentification == "RegisterIdentification"

IsCoinBaseTx(t) == t.TxType = CoinBase
IsRechargeToSideChainTx(t) == t.TxType = RechargeToSideChain
IsTransferCrossChainAssetTx(t) == t.TxType = TransferCrossChainAsset
IsRegisterAssetTx(t) == t.TxType = RegisterAsset

\* -------------------------------------------------------- chain parameters
\* config.Parameters.MaxBlockSize
MaxBlockSize == 8000
\* config.Parameters.PowConfiguration.MinTxFee
MinTxFee == 1
\* config.Parameters.MinCrossChainTxFee
MinCrossChainTxFee == 2
\* config.Parameters.ChainParam.SpendCoinbaseSpan
SpendCoinbaseSpan == 2
\* math.MaxUint16
MaxUint16 == 65535
\* Input sequences are only ever compared with math.MaxUint32 - 1, a number
\* wider than 32-bit integers: they are numerals.
MaxUint32Minus1 == "4294967294"
SequenceZero == "0"

\* The all-zero Uint256 and Uint168.
EmptyHash == "0000"
EmptyProgramHash == [prefix |-> "Zero", body |-> "0"]

\* The program hash rewarded in every coinbase.
FoundationAddress == [prefix |-> "Standard", body |-> "foundation"]

\* DefaultLedger.Blockchain.AssetID, the native asset.
ELA == "ELA"

PrefixStandard == "Standard"
PrefixMultisig == "Multisig"
PrefixCrossChain == "CrossChain"
PrefixRegisterId == "RegisterId"

\* ---------------------------------------------------------- float64 product
\* Numbers too wide for 32-bit integers are little-endian bit
\* sequences; the float64 product is computed on them as IEEE 754 does:
\* the exact product rounded to 53 significant bits, ties to even.

\* bits * n + carry, for a small natural n.
RECURSIVE MulBits(_, _, _)
MulBits(bits, n, carry) ==
    IF bits = <<>>
    THEN IF carry = 0 THEN <<>> ELSE <<carry % 2>> \o MulBits(<<>>, n, carry \div 2)
    ELSE LET v == Head(bits) * n + carry IN
         <<v % 2>> \o MulBits(Tail(bits), n, v \div 2)

\* bits + 1.
RECURSIVE IncBits(_)
IncBits(bits) ==
    IF bits = <<>> THEN <<1>>
    ELSE IF Head(bits) = 0 THEN <<1>> \o Tail(bits)
    ELSE <<0>> \o IncBits(Tail(bits))

\* The natural number of a (short) bit sequence.
RECURSIVE BitsToNat(_)
BitsToNat(bits) ==
    IF bits = <<>> THEN 0 ELSE Head(bits) + 2 * BitsToNat(Tail(bits))

\* bits without its leading zeroes.
RECURSIVE Normalize(_)
Normalize(bits) ==
    IF bits = <<>> THEN <<>>
    ELSE IF bits[Len(bits)] = 1 THEN bits
    ELSE Normalize(SubSeq(bits, 1, Len(bits) - 1))

\* The product rounded to 53 significant bits: the kept bits, and how many
\* low bits were rounded away.
RoundTo53(p) ==
    LET n == Len(p)
        s == n - 53 IN
    IF s <= 0 THEN [bits |-> p, shift |-> 0]
    ELSE LET kept == SubSeq(p, s + 1, n)
             guard == p[s]
             sticky == \E i \in 1..(s - 1) : p[i] = 1
             up == guard = 1 /\ (sticky \/ kept[1] = 1) IN
         [bits |-> IF up THEN IncBits(kept) ELSE kept, shift |-> s]

\* Fixed64(float64(n) * f) for the float64 f = sig * 2^-exp: the rounded
\* product truncated towards zero (float64(n) is exact for these n).
Float64MulToFixed64(n, sig, exp) ==
    LET a == IF n < 0 THEN -n ELSE n
        r == RoundTo53(Normalize(MulBits(sig, a, 0)))
        drop == exp - r.shift
        whole == IF drop >= Len(r.bits) THEN 0
                 ELSE BitsToNat(SubSeq(r.bits, drop + 1, Len(r.bits))) IN
    IF n < 0 THEN -whole ELSE whole

\* The float64 nearest 0.3 is 0x13333333333333 * 2^-54.
Sig03 == [i \in 1..53 |-> IF i = 53 \/ (i - 1) % 4 \in {0, 1} THEN 1 ELSE 0]
Exp03 == 54

\* config.Parameters.ExchangeRate: the float64 1.0 is 2^52 * 2^-52.
ExchangeRateSig == [i \in 1..53 |-> IF i = 53 THEN 1 ELSE 0]
ExchangeRateExp == 52

\* ------------------------------------------------------------- the ledger
\* The committed transactions the inputs of the model refer to.
LedgerTxs ==
    [T1 |-> [TxType |-> TransferAsset, LockTime |-> 0, Outputs |-> <<
               [AssetID |-> ELA, Value |-> 5, TokenValue |-> 0, OutputLock |-> 0],
               [AssetID |-> ELA, Value |-> 3, TokenValue |-> 0, OutputLock |-> 0],
               [AssetID |-> "TOK", Value |-> 0, TokenValue |-> 2, OutputLock |-> 0],
               [AssetID |-> "TOK", Value |-> 2, TokenValue |-> 4, OutputLock |-> 0],
               [AssetID |-> ELA, Value |-> 4, TokenValue |-> 0, OutputLock |-> 7],
               [AssetID |-> ELA, Value |-> 0, TokenValue |-> 0, OutputLock |-> 0]>>],
     T2 |-> [TxType |-> CoinBase, LockTime |-> 1, Outputs |-> <<
               [AssetID |-> ELA, Value |-> 6, TokenValue |-> 0, OutputLock |-> 0]>>],
     T3 |-> [TxType |-> CoinBase, LockTime |-> 2, Outputs |-> <<
               [AssetID |-> ELA, Value |-> 6, TokenValue |-> 0, OutputLock |-> 0]>>]]

\* DefaultLedger.Store.GetHeight()
Height == 3

\* The outputs no committed transaction has spent yet.
Unspent ==
    {<<"T1", 0>>, <<"T1", 2>>, <<"T1", 3>>, <<"T1", 4>>, <<"T1", 5>>, <<"T2", 0>>, <<"T3", 0>>}

\* The registered assets: DefaultLedger.GetAsset / Store.GetAssets.
Assets ==
    [ELA |-> [Name |-> "ELA", Precision |-> 8],
     TOK |-> [Name |-> "Token", Precision |-> 17]]

\* Store.GetTransaction
GetTransaction(hash) ==
    IF hash \in DOMAIN LedgerTxs THEN [tx |-> LedgerTxs[hash], err |-> NIL]
    ELSE [tx |-> NIL, err |-> "not found"]

\* Store.GetTxReference: the output each input refers to, input by input.
GetTxReference(t) ==
    LET resolves(in) ==
            /\ in.Previous.TxID \in DOMAIN LedgerTxs
            /\ in.Previous.Index < Len(LedgerTxs[in.Previous.TxID].Outputs) IN
    IF \A i \in 1..Len(t.Inputs) : resolves(t.Inputs[i])
    THEN [refs |-> [i \in 1..Len(t.Inputs) |->
                      LedgerTxs[t.Inputs[i].Previous.TxID].Outputs[t.Inputs[i].Previous.Index + 1]],
          err |-> NIL]
    ELSE [refs |-> <<>>, err |-> "GetTxReference failed"]

\* The sum of a sequence of amounts, as the loops accumulate it.
RECURSIVE SumSeq(_)
SumSeq(seq) ==
    IF seq = <<>> THEN 0 ELSE Head(seq) + SumSeq(Tail(seq))

\* --------------------------------------------------------- sanity checks
CheckTransactionSize(t) ==
    IF t.Size <= 0 \/ t.Size > MaxBlockSize THEN "Invalid transaction size" ELSE NIL

\* A CheckTransactionInput that looks for duplicates among all but the
\* last input.
CheckTransactionInputSkipsLast(t) ==
    IF IsCoinBaseTx(t)
    THEN IF Len(t.Inputs) # 1 THEN "coinbase must has only one input"
         ELSE IF t.Inputs[1].Previous.TxID # EmptyHash
                 \/ t.Inputs[1].Previous.Index # MaxUint16
              THEN "invalid coinbase input"
              ELSE NIL
    ELSE IF IsRechargeToSideChainTx(t) THEN NIL
    ELSE IF Len(t.Inputs) <= 0 THEN "transaction has no inputs"
    ELSE IF \E i \in 1..Len(t.Inputs) :
               \/ t.Inputs[i].Previous.TxID = EmptyHash
                    /\ t.Inputs[i].Previous.Index = MaxUint16
               \/ \E j \in 1..(i - 1) :
                     i < Len(t.Inputs) /\ t.Inputs[i].Previous = t.Inputs[j].Previous
         THEN "invalid or duplicated transaction inputs"
         ELSE NIL

CheckTransactionInput(t) ==
    IF IsCoinBaseTx(t)
    THEN IF Len(t.Inputs) # 1 THEN "coinbase must has only one input"
         ELSE IF t.Inputs[1].Previous.TxID # EmptyHash
                 \/ t.Inputs[1].Previous.Index # MaxUint16
              THEN "invalid coinbase input"
              ELSE NIL
    ELSE IF IsRechargeToSideChainTx(t) THEN NIL
    ELSE IF Len(t.Inputs) <= 0 THEN "transaction has no inputs"
    ELSE IF \E i \in 1..Len(t.Inputs) :
               \/ t.Inputs[i].Previous.TxID = EmptyHash
                    /\ t.Inputs[i].Previous.Index = MaxUint16
               \/ \E j \in 1..(i - 1) : t.Inputs[i].Previous = t.Inputs[j].Previous
         THEN "invalid or duplicated transaction inputs"
         ELSE NIL

CheckOutputProgramHash(programHash) ==
    \/ programHash.prefix = PrefixStandard
    \/ programHash.prefix = PrefixMultisig
    \/ programHash.prefix = PrefixCrossChain
    \/ programHash.prefix = PrefixRegisterId
    \/ programHash = EmptyProgramHash

\* The verdict of the loop of CheckTransactionOutput on one output.
CheckOneOutput(t, output) ==
    IF output.AssetID = EmptyHash THEN "asset id is nil"
    ELSE IF output.AssetID = ELA /\ (output.Value < 0 \/ output.TokenValue # 0)
    THEN "invalid transaction output with ela asset id"
    ELSE IF output.AssetID # ELA
            /\ (IsRechargeToSideChainTx(t) \/ IsTransferCrossChainAssetTx(t))
    THEN "cross chain asset tx asset id should only be ela asset id"
    ELSE IF output.AssetID # ELA /\ (output.TokenValue < 0 \/ output.Value # 0)
    THEN "invalid transaction output with token asset id"
    ELSE IF ~CheckOutputProgramHash(output.ProgramHash) THEN "output address is invalid"
    ELSE NIL

CheckTransactionOutput(t) ==
    IF IsCoinBaseTx(t)
    THEN IF Len(t.Outputs) < 2 THEN "coinbase output is not enough, at least 2"
         ELSE LET totalReward == SumSeq([i \in 1..Len(t.Outputs) |-> t.Outputs[i].Value])
                  foundationReward ==
                      SumSeq([i \in 1..Len(t.Outputs) |->
                                IF t.Outputs[i].ProgramHash = FoundationAddress
                                THEN t.Outputs[i].Value ELSE 0]) IN
              IF foundationReward < Float64MulToFixed64(totalReward, Sig03, Exp03)
              THEN "Reward to foundation in coinbase < 30%"
              ELSE NIL
    ELSE IF Len(t.Outputs) < 1 THEN "transaction has no outputs"
    ELSE IF \E i \in 1..Len(t.Outputs) : CheckOneOutput(t, t.Outputs[i]) # NIL
    THEN "invalid output"
    ELSE NIL

\* amount % 10^k == 0, digit by digit (10^18 is wider than 32-bit
\* integers).
RECURSIVE DivisibleByPow10(_, _)
DivisibleByPow10(amount, k) ==
    IF k = 0 THEN TRUE
    ELSE amount % 10 = 0 /\ DivisibleByPow10(amount \div 10, k - 1)

\* checkAmountPrecise, for precision <= assetPrecision (the byte difference
\* does not wrap).
checkAmountPrecise(amount, precision, assetPrecision) ==
    DivisibleByPow10(amount, assetPrecision - precision)

CheckAssetPrecision(t) ==
    IF t.TxType = RegisterAsset THEN NIL
    ELSE IF Len(t.Outputs) = 0 THEN NIL
    ELSE IF \E i \in 1..Len(t.Outputs) : t.Outputs[i].AssetID \notin DOMAIN Assets
    THEN "The asset not exist in local blockchain."
    ELSE IF \E i \in 1..Len(t.Outputs) :
               LET o == t.Outputs[i] IN
               ~checkAmountPrecise(o.Value, Assets[o.AssetID].Precision,
                                   IF o.AssetID = ELA THEN 8 ELSE 18)
    THEN "Invalide asset value,out of precise."
    ELSE NIL

\* core.IsValidAttributeType
IsValidAttributeType(usage) == usage \in {"Nonce", "Script", "Memo", "Description"}

\* crypto.ToProgramHash fails on code it cannot hash.
CheckAttributeProgram(t) ==
    IF \E i \in 1..Len(t.Attributes) : ~IsValidAttributeType(t.Attributes[i])
    THEN "invalid attribute usage"
    ELSE IF \E i \in 1..Len(t.Programs) :
               \/ t.Programs[i].Code = NIL
               \/ t.Programs[i].Parameter = NIL
               \/ t.Programs[i].Code = "malformed"
    THEN "invalid program"
    ELSE NIL

\* core.MinPrecision and core.MaxPrecision
MinPrecision == 0
MaxPrecision == 18

CheckTransactionPayload(t) ==
    IF t.Payload.kind = "PayloadRegisterAsset"
    THEN IF t.Payload.Asset.Precision < MinPrecision \/ t.Payload.Asset.Precision > MaxPrecision
         THEN "Invalide asset Precision."
         ELSE IF ~checkAmountPrecise(t.Payload.Amount, t.Payload.Asset.Precision,
                                     IF t.Hash = ELA THEN 8 ELSE 18)
         THEN "Invalide asset value,out of precise."
         ELSE NIL
    ELSE IF t.Payload.kind \in {"PayloadTransferAsset", "PayloadRecord", "PayloadCoinBase",
                                "PayloadRechargeToSideChain",
                                "PayloadTransferCrossChainAsset",
                                "PayloadRegisterIdentification"}
    THEN NIL
    ELSE "[txValidator],invalidate transaction payload type."

CheckTransactionSanity(t) ==
    IF CheckTransactionSize(t) # NIL THEN ErrTransactionSize
    ELSE IF CheckTransactionInput(t) # NIL THEN ErrInvalidInput
    ELSE IF CheckTransactionOutput(t) # NIL THEN ErrInvalidOutput
    ELSE IF CheckAssetPrecision(t) # NIL THEN ErrAssetPrecision
    ELSE IF CheckAttributeProgram(t) # NIL THEN ErrAttributeProgram
    ELSE IF CheckTransactionPayload(t) # NIL THEN ErrTransactionPayload
    ELSE Success


\* Two program hashes of the side chain, a standard and a multisig one.
Alice == [prefix |-> PrefixStandard, body |-> "alice"]
Bob == [prefix |-> PrefixMultisig, body |-> "bob"]

\* ------------------------------------------ addresses and main chain bytes
\* Uint168FromAddress: the program hash an address string encodes, or an
\* error for a string that is no address.
AddressBook ==
    [EAlice |-> Alice, EBob |-> Bob,
     XGenesis |-> [prefix |-> PrefixCrossChain, body |-> "genesis"]]

Uint168FromAddress(address) ==
    IF address \in DOMAIN AddressBook
    THEN [programHash |-> AddressBook[address], err |-> NIL]
    ELSE [programHash |-> NIL, err |-> "invalid address"]

\* Uint168.ToAddress: the address string of a program hash.
ToAddress(programHash) ==
    IF \E a \in DOMAIN AddressBook : AddressBook[a] = programHash
    THEN [address |-> CHOOSE a \in DOMAIN AddressBook : AddressBook[a] = programHash,
          err |-> NIL]
    ELSE [address |-> NIL, err |-> "invalid program hash"]

\* common.GetGenesisProgramHash of the side chain's genesis block.
GenesisProgramHash == [prefix |-> PrefixCrossChain, body |-> "genesis"]

\* MerkleProof.Deserialize of the payload's proof bytes.
DeserializeProof(bytes) ==
    IF Len(bytes) = 2 /\ bytes[1] = "proof" THEN [proof |-> bytes[2], err |-> NIL]
    ELSE [proof |-> NIL, err |-> "deserialize failed"]

\* ela.Transaction.Deserialize of the payload's main chain transaction
\* bytes: the signed content, then the programs (signatures).
DeserializeMainChainTx(bytes) ==
    IF Len(bytes) = 3 /\ bytes[1] = "tx"
    THEN [tx |-> [Payload |-> bytes[2].Payload, Outputs |-> bytes[2].Outputs,
                  Nonce |-> bytes[2].Nonce, Programs |-> bytes[3]],
          err |-> NIL]
    ELSE [tx |-> NIL, err |-> "deserialize failed"]

\* ela.Transaction.Hash: the digest of the signed content, the programs left
\* out.
MainChainTxHash(mtx) ==
    <<"sha256", [Payload |-> mtx.Payload, Outputs |-> mtx.Outputs, Nonce |-> mtx.Nonce]>>

\* What the ledger records for a transaction that embeds no main chain
\* transaction.
NoMainchainTx == <<>>

\* Store.IsTxHashDuplicate and Store.IsMainchainTxHashDuplicate
IsTxHashDuplicate(ch, hash) == \E i \in 1..Len(ch) : ch[i].Hash = hash

IsMainchainTxHashDuplicate(ch, hash) == \E i \in 1..Len(ch) : ch[i].MainchainTxHash = hash

\* -------------------------------------------------------- context checks
\* VerifySignature
CheckTransactionSignature(t) == IF t.SigOK THEN NIL ELSE "signature verification failed"

ExchangeRateToFixed64(amount) == Float64MulToFixed64(amount, ExchangeRateSig, ExchangeRateExp)

\* The verdict of the loop of CheckRechargeToSideChainTransaction on payload
\* entry i of the main chain transaction.
CheckRechargeEntry(t, mtx, i) ==
    LET pld == mtx.Payload
        mcOutput == mtx.Outputs[pld.OutputIndexes[i] + 1]
        crossChainAmount == ExchangeRateToFixed64(pld.CrossChainAmounts[i])
        ph == Uint168FromAddress(pld.CrossChainAddresses[i]) IN
    IF mcOutput.ProgramHash # GenesisProgramHash THEN NIL
    ELSE IF pld.CrossChainAmounts[i] < 0
            \/ pld.CrossChainAmounts[i] > mcOutput.Value - MinCrossChainTxFee
    THEN "Invalid transaction cross chain amount"
    ELSE IF ph.err # NIL THEN "Invalid transaction payload cross chain address"
    ELSE IF ~\E k \in 1..Len(t.Outputs) :
                /\ t.Outputs[k].ProgramHash = ph.programHash
                /\ t.Outputs[k].Value = crossChainAmount
    THEN "Invalid transaction outputs"
    ELSE NIL

\* A recharge check without the anti-replay lookup.
CheckRechargeNoReplayLookup(t, ch) ==
    IF t.Payload.kind # "PayloadRechargeToSideChain"
    THEN "Invalid recharge to side chain payload type"
    ELSE IF Normalize(ExchangeRateSig) = <<>> THEN "Invalid config exchange rate"
    ELSE IF DeserializeProof(t.Payload.MerkleProof).err # NIL
    THEN "RechargeToSideChain payload deserialize failed"
    ELSE IF DeserializeMainChainTx(t.Payload.MainChainTransaction).err # NIL
    THEN "RechargeToSideChain mainChainTransaction deserialize failed"
    ELSE LET mtx == DeserializeMainChainTx(t.Payload.MainChainTransaction).tx IN
    IF mtx.Payload.kind # "PayloadTransferCrossChainAsset"
    THEN "Invalid payload ela.PayloadTransferCrossChainAsset"
    ELSE IF \E i \in 1..Len(mtx.Payload.CrossChainAddresses) :
               CheckRechargeEntry(t, mtx, i) # NIL
    THEN "Invalid transaction cross chain entry"
    ELSE IF \E k \in 1..Len(t.Outputs) : t.Outputs[k].Value < 0
    THEN "Invalid transaction output value"
    ELSE LET oriOutputTotalAmount ==
                 SumSeq([i \in 1..Len(mtx.Payload.CrossChainAddresses) |->
                           IF mtx.Outputs[mtx.Payload.OutputIndexes[i] + 1].ProgramHash
                                 = GenesisProgramHash
                           THEN ExchangeRateToFixed64(mtx.Payload.CrossChainAmounts[i])
                           ELSE 0])
             targetOutputTotalAmount ==
                 SumSeq([k \in 1..Len(t.Outputs) |-> t.Outputs[k].Value]) IN
         IF targetOutputTotalAmount # oriOutputTotalAmount
         THEN "Output and fee verify failed"
         ELSE NIL

CheckRechargeToSideChainTransaction(t, ch) ==
    IF t.Payload.kind # "PayloadRechargeToSideChain"
    THEN "Invalid recharge to side chain payload type"
    ELSE IF Normalize(ExchangeRateSig) = <<>> THEN "Invalid config exchange rate"
    ELSE IF DeserializeProof(t.Payload.MerkleProof).err # NIL
    THEN "RechargeToSideChain payload deserialize failed"
    ELSE IF DeserializeMainChainTx(t.Payload.MainChainTransaction).err # NIL
    THEN "RechargeToSideChain mainChainTransaction deserialize failed"
    ELSE LET mtx == DeserializeMainChainTx(t.Payload.MainChainTransaction).tx IN
    IF IsMainchainTxHashDuplicate(ch, MainChainTxHash(mtx))
    THEN "Duplicate mainchain transaction hash in paylod"
    ELSE IF mtx.Payload.kind # "PayloadTransferCrossChainAsset"
    THEN "Invalid payload ela.PayloadTransferCrossChainAsset"
    ELSE IF \E i \in 1..Len(mtx.Payload.CrossChainAddresses) :
               CheckRechargeEntry(t, mtx, i) # NIL
    THEN "Invalid transaction cross chain entry"
    ELSE IF \E k \in 1..Len(t.Outputs) : t.Outputs[k].Value < 0
    THEN "Invalid transaction output value"
    ELSE LET oriOutputTotalAmount ==
                 SumSeq([i \in 1..Len(mtx.Payload.CrossChainAddresses) |->
                           IF mtx.Outputs[mtx.Payload.OutputIndexes[i] + 1].ProgramHash
                                 = GenesisProgramHash
                           THEN ExchangeRateToFixed64(mtx.Payload.CrossChainAmounts[i])
                           ELSE 0])
             targetOutputTotalAmount ==
                 SumSeq([k \in 1..Len(t.Outputs) |-> t.Outputs[k].Value]) IN
         IF targetOutputTotalAmount # oriOutputTotalAmount
         THEN "Output and fee verify failed"
         ELSE NIL

CheckTransferCrossChainAssetTransaction(t) ==
    IF t.Payload.kind # "PayloadTransferCrossChainAsset"
    THEN "Invalid transfer cross chain asset payload type"
    ELSE LET pld == t.Payload
             n == Len(pld.CrossChainAddresses) IN
    IF \/ n = 0
       \/ n > Len(t.Outputs)
       \/ n # Len(pld.CrossChainAmounts)
       \/ Len(pld.CrossChainAmounts) # Len(pld.OutputIndexes)
    THEN "Invalid transaction payload content"
    ELSE IF \E i \in 1..n :
               \/ pld.OutputIndexes[i] >= Len(t.Outputs)
               \/ \E j \in 1..(i - 1) : pld.OutputIndexes[j] = pld.OutputIndexes[i]
    THEN "Invalid transaction payload cross chain index"
    ELSE IF n # Cardinality({k \in 1..Len(t.Outputs) :
                               t.Outputs[k].ProgramHash = EmptyProgramHash})
    THEN "Invalid transaction cross chain counts"
    ELSE IF \E i \in 1..n :
               LET a == pld.CrossChainAddresses[i]
                   ph == Uint168FromAddress(a) IN
               \/ a = ""
               \/ ph.err # NIL
               \/ ph.programHash.prefix \notin {PrefixStandard, PrefixMultisig}
    THEN "Invalid transaction cross chain address"
    ELSE IF \E i \in 1..n :
               t.Outputs[pld.OutputIndexes[i] + 1].ProgramHash # EmptyProgramHash
    THEN "Invalid transaction output program hash"
    ELSE IF \E i \in 1..n :
               LET o == t.Outputs[pld.OutputIndexes[i] + 1] IN
               \/ o.Value < 0
               \/ pld.CrossChainAmounts[i] < 0
               \/ pld.CrossChainAmounts[i] > o.Value - MinCrossChainTxFee
    THEN "Invalid transaction outputs"
    ELSE IF GetTxReference(t).err # NIL THEN "Invalid transaction inputs"
    ELSE LET refs == GetTxReference(t).refs
             totalInput == SumSeq([i \in 1..Len(refs) |-> refs[i].Value])
             totalOutput == SumSeq([k \in 1..Len(t.Outputs) |-> t.Outputs[k].Value]) IN
         IF totalInput - totalOutput < MinCrossChainTxFee
         THEN "Invalid transaction fee"
         ELSE NIL

\* Asset.Hash of a register-asset payload: the id its outputs carry.
AssetHash(asset) ==
    CASE asset.Name = "New" -> "NEW"
      [] asset.Name = "Token" -> "TOK"
      [] OTHER -> "ANY"

\* total = amount * 10^k, digit by digit (10^18 is wider than 32-bit
\* integers).
RECURSIVE EqualsTimesPow10(_, _, _)
EqualsTimesPow10(total, amount, k) ==
    IF k = 0 THEN total = amount
    ELSE total % 10 = 0 /\ EqualsTimesPow10(total \div 10, amount, k - 1)

CheckRegisterAssetTransaction(t) ==
    IF t.Payload.kind # "PayloadRegisterAsset"
    THEN "Invalid register asset transaction payload"
    ELSE IF \E a \in DOMAIN Assets : Assets[a].Name = t.Payload.Asset.Name
    THEN "Asset name has been registed"
    ELSE IF \E k \in 1..Len(t.Outputs) :
               /\ t.Outputs[k].AssetID = AssetHash(t.Payload.Asset)
               /\ t.Outputs[k].ProgramHash # t.Payload.Controller
    THEN "Register asset program hash not same as program hash in payload"
    ELSE LET totalToken ==
                 SumSeq([k \in 1..Len(t.Outputs) |->
                           IF t.Outputs[k].AssetID = AssetHash(t.Payload.Asset)
                           THEN t.Outputs[k].TokenValue ELSE 0]) IN
         IF ~EqualsTimesPow10(totalToken, t.Payload.Amount, 18)
         THEN "Invalid register asset amount"
         ELSE NIL

\* DefaultLedger.IsDoubleSpend: an input refers to an output that is not
\* unspent.
IsDoubleSpend(t) ==
    \E i \in 1..Len(t.Inputs) :
        <<t.Inputs[i].Previous.TxID, t.Inputs[i].Previous.Index>> \notin Unspent

CheckTransactionUTXOLock(t) ==
    IF IsCoinBaseTx(t) THEN NIL
    ELSE IF Len(t.Inputs) <= 0 THEN "Transaction has no inputs"
    ELSE IF GetTxReference(t).err # NIL THEN "GetReference failed"
    ELSE LET refs == GetTxReference(t).refs IN
         IF \E i \in 1..Len(refs) :
               /\ refs[i].OutputLock # 0
               /\ \/ t.Inputs[i].Sequence # MaxUint32Minus1
                  \/ t.LockTime < refs[i].OutputLock
         THEN "UTXO output locked"
         ELSE NIL

\* The native and token amounts of a sequence of outputs.
ElaAmount(outs) ==
    SumSeq([i \in 1..Len(outs) |-> IF outs[i].AssetID = ELA THEN outs[i].Value ELSE 0])

TokenAmount(outs) ==
    SumSeq([i \in 1..Len(outs) |-> IF outs[i].AssetID = ELA THEN 0 ELSE outs[i].TokenValue])

\* CheckTransactionFee: the outputs are added up before the references are
\* fetched and once more after.
CheckTransactionFee(t) ==
    LET elaOutputFirst == ElaAmount(t.Outputs)
        tokenOutputFirst == TokenAmount(t.Outputs) IN
    IF GetTxReference(t).err # NIL THEN GetTxReference(t).err
    ELSE LET references == GetTxReference(t).refs
             elaInputAmount == ElaAmount(references)
             tokenInputAmount == TokenAmount(references)
             elaOutputAmount == elaOutputFirst + ElaAmount(t.Outputs)
             tokenOutputAmount == tokenOutputFirst + TokenAmount(t.Outputs)
             elaBalance == elaInputAmount - elaOutputAmount IN
         IF (IsTransferCrossChainAssetTx(t) \/ IsRechargeToSideChainTx(t))
            /\ elaBalance < MinCrossChainTxFee
         THEN "crosschain transaction fee is not enough"
         ELSE IF ~(IsTransferCrossChainAssetTx(t) \/ IsRechargeToSideChainTx(t))
                 /\ elaBalance < MinTxFee
         THEN "transaction fee is not enough"
         ELSE IF tokenInputAmount - tokenOutputAmount # 0
         THEN "token amount is not balanced"
         ELSE NIL

\* The loop over the inputs that ends CheckTransactionContext, from input i
\* on: the first input found wanting decides.
RECURSIVE CheckReferencedOutputs(_, _)
CheckReferencedOutputs(t, i) ==
    IF i > Len(t.Inputs) THEN Success
    ELSE LET r == GetTransaction(t.Inputs[i].Previous.TxID) IN
         IF r.err # NIL THEN ErrUnknownReferedTxn
         ELSE LET referTxnOut == r.tx.Outputs[t.Inputs[i].Previous.Index + 1] IN
              IF referTxnOut.AssetID = ELA /\ referTxnOut.Value <= 0
              THEN ErrInvalidReferedTxn
              ELSE IF IsCoinBaseTx(r.tx)
                      /\ r.tx.LockTime <= Height
                      /\ Height - r.tx.LockTime < SpendCoinbaseSpan
              THEN ErrIneffectiveCoinbase
              ELSE CheckReferencedOutputs(t, i + 1)

\* CheckTransactionContext from the register-asset check on.
ChecksFromRegisterAsset(t) ==
    IF IsRegisterAssetTx(t) /\ CheckRegisterAssetTransaction(t) # NIL THEN ErrInvalidOutput
    ELSE IF IsDoubleSpend(t) THEN ErrDoubleSpend
    ELSE IF CheckTransactionUTXOLock(t) # NIL THEN ErrUTXOLocked
    ELSE IF CheckTransactionFee(t) # NIL THEN ErrTransactionBalance
    ELSE CheckReferencedOutputs(t, 1)

\* A context check that only logs the failure of the cross chain check.
CheckTransactionContextLogsOnly(t, ch) ==
    IF IsTxHashDuplicate(ch, t.Hash) THEN ErrTxHashDuplicate
    ELSE IF IsCoinBaseTx(t) THEN Success
    ELSE IF CheckTransactionSignature(t) # NIL THEN ErrTransactionSignature
    ELSE IF IsRechargeToSideChainTx(t)
    THEN IF CheckRechargeToSideChainTransaction(t, ch) # NIL THEN ErrRechargeToSideChain
         ELSE Success
    ELSE ChecksFromRegisterAsset(t)

CheckTransactionContext(t, ch) ==
    IF IsTxHashDuplicate(ch, t.Hash) THEN ErrTxHashDuplicate
    ELSE IF IsCoinBaseTx(t) THEN Success
    ELSE IF CheckTransactionSignature(t) # NIL THEN ErrTransactionSignature
    ELSE IF IsRechargeToSideChainTx(t)
    THEN IF CheckRechargeToSideChainTransaction(t, ch) # NIL THEN ErrRechargeToSideChain
         ELSE Success
    ELSE IF IsTransferCrossChainAssetTx(t) /\ CheckTransferCrossChainAssetTransaction(t) # NIL
    THEN ErrInvalidOutput
    ELSE ChecksFromRegisterAsset(t)


\* ------------------------------------------------------- the fee helper
\* The loops that add the Value of every output to the entry of its asset,
\* from output i on.
RECURSIVE AccumulateByAsset(_, _, _)
AccumulateByAsset(outs, i, m) ==
    IF i > Len(outs) THEN m
    ELSE LET v == outs[i] IN
         AccumulateByAsset(outs, i + 1,
            IF v.AssetID \in DOMAIN m
            THEN MapPut(m, v.AssetID, m[v.AssetID] + v.Value)
            ELSE MapPut(m, v.AssetID, v.Value))

\* The balance loops: over the assets of the outputs, then over the assets
\* of the inputs the first loop left out.
BalanceOfOutputs(inputs, outputs) ==
    [a \in DOMAIN outputs |->
        IF a \in DOMAIN inputs THEN inputs[a] - outputs[a] ELSE 0 - outputs[a]]

BalanceOfInputs(feeMapSoFar, inputs) ==
    [a \in DOMAIN feeMapSoFar \cup DOMAIN inputs |->
        IF a \in DOMAIN feeMapSoFar THEN feeMapSoFar[a] ELSE 0 + inputs[a]]

\* The recharge branch, from output k and payload entry i on.
RECURSIVE RechargeFeeMap(_, _, _, _, _)
RechargeFeeMap(t, mtx, k, i, m) ==
    IF k > Len(t.Outputs) THEN [feeMap |-> m, err |-> NIL]
    ELSE IF i > Len(mtx.Payload.CrossChainAddresses) THEN RechargeFeeMap(t, mtx, k + 1, 1, m)
    ELSE LET v == t.Outputs[k]
             target == ToAddress(v.ProgramHash) IN
         IF target.err # NIL THEN [feeMap |-> NIL, err |-> target.err]
         ELSE IF target.address = mtx.Payload.CrossChainAddresses[i]
         THEN LET mcAmount == mtx.Outputs[mtx.Payload.OutputIndexes[i] + 1].Value
                  delta == ExchangeRateToFixed64(mcAmount) - v.Value IN
              RechargeFeeMap(t, mtx, k, i + 1,
                 IF v.AssetID \in DOMAIN m
                 THEN MapPut(m, v.AssetID, m[v.AssetID] + delta)
                 ELSE MapPut(m, v.AssetID, delta))
         ELSE RechargeFeeMap(t, mtx, k, i + 1, m)

\* A fee map without the loop over the assets of the inputs.
GetTxFeeMapOutputsOnly(t) ==
    IF GetTxReference(t).err # NIL THEN [feeMap |-> NIL, err |-> GetTxReference(t).err]
    ELSE LET inputs == AccumulateByAsset(GetTxReference(t).refs, 1, EmptyMap)
             outputs == AccumulateByAsset(t.Outputs, 1, EmptyMap) IN
         [feeMap |-> BalanceOfOutputs(inputs, outputs), err |-> NIL]

GetTxFeeMap(t) ==
    IF IsRechargeToSideChainTx(t)
    THEN LET d == DeserializeMainChainTx(t.Payload.MainChainTransaction) IN
         IF d.err # NIL
         THEN [feeMap |-> NIL, err |-> "GetTxFeeMap mainChainTransaction deserialize failed"]
         ELSE IF d.tx.Payload.kind # "PayloadTransferCrossChainAsset"
         THEN [feeMap |-> NIL, err |-> "panic"]
         ELSE RechargeFeeMap(t, d.tx, 1, 1, EmptyMap)
    ELSE IF GetTxReference(t).err # NIL THEN [feeMap |-> NIL, err |-> GetTxReference(t).err]
    ELSE LET inputs == AccumulateByAsset(GetTxReference(t).refs, 1, EmptyMap)
             outputs == AccumulateByAsset(t.Outputs, 1, EmptyMap) IN
         [feeMap |-> BalanceOfInputs(BalanceOfOutputs(inputs, outputs), inputs), err |-> NIL]

\* GetTxFee: the entry of the asset, 0 for an asset the map lacks and on error.
GetTxFee(t, assetId) ==
    LET r == GetTxFeeMap(t) IN
    IF r.err # NIL THEN 0
    ELSE IF assetId \in DOMAIN r.feeMap THEN r.feeMap[assetId] ELSE 0


\* --------------------------------------------- the transactions of the model
\* The most inputs and outputs of a transaction of the model.
MaxInputs == 2
MaxOutputs == 2

\* The sequences of at most n elements of S.
SeqsUpTo(S, n) == UNION {[1..k -> S] : k \in 0..n}

Input(txid, index, sequence) ==
    [Previous |-> [TxID |-> txid, Index |-> index], Sequence |-> sequence]

Output(asset, value, tokenValue, programHash) ==
    [AssetID |-> asset, Value |-> value, TokenValue |-> tokenValue,
     ProgramHash |-> programHash, OutputLock |-> 0]

PayloadOf(type) ==
    CASE type = CoinBase -> [kind |-> "PayloadCoinBase"]
      [] type = TransferAsset -> [kind |-> "PayloadTransferAsset"]
      [] type = Record -> [kind |-> "PayloadRecord"]
      [] type = RegisterIdentification -> [kind |-> "PayloadRegisterIdentification"]
      [] type = RegisterAsset ->
            [kind |-> "PayloadRegisterAsset", Asset |-> [Name |-> "New", Precision |-> 18],
             Amount |-> 1, Controller |-> Alice]
      [] type = RechargeToSideChain ->
            [kind |-> "PayloadRechargeToSideChain", MerkleProof |-> <<"proof">>,
             MainChainTransaction |-> <<"garbage">>]
      [] type = TransferCrossChainAsset ->
            [kind |-> "PayloadTransferCrossChainAsset", CrossChainAddresses |-> <<>>,
             OutputIndexes |-> <<>>, CrossChainAmounts |-> <<>>]

\* A signed transaction of the given kind, of an acceptable size.
Tx(type, payload, inputs, outputs) ==
    [TxType |-> type, Payload |-> payload, Inputs |-> inputs, Outputs |-> outputs,
     Attributes |-> <<"Nonce">>,
     Programs |-> <<[Code |-> "code", Parameter |-> "sig"]>>,
     LockTime |-> 0, Size |-> 100, Hash |-> "h1", SigOK |-> TRUE]

\* Outputs the output checks of each kind accept.
GoodOutputs(type) ==
    IF type = CoinBase
    THEN <<Output(ELA, 30, 0, FoundationAddress), Output(ELA, 70, 0, Alice)>>
    ELSE <<Output(ELA, 1, 0, Alice)>>

\* Inputs of every shape: references to the ledger, the coinbase reference,
\* a null hash with another index, one reference under two sequences.
SanityInputs ==
    {Input("T1", 0, SequenceZero), Input("T1", 0, MaxUint32Minus1), Input("T1", 2, SequenceZero),
     Input(EmptyHash, MaxUint16, SequenceZero), Input(EmptyHash, 0, SequenceZero)}

\* Transactions of every kind over those inputs, of every size class.
InputShapeTxns ==
    {[Tx(type, PayloadOf(type), ins, GoodOutputs(type)) EXCEPT !.Size = size] :
        type \in {CoinBase, TransferAsset, Record, RegisterAsset, RechargeToSideChain,
                  TransferCrossChainAsset},
        ins \in SeqsUpTo(SanityInputs, MaxInputs),
        size \in {0, 100, MaxBlockSize + 1}}

\* Coinbase rewards, to the foundation and to a miner.
CoinbaseOutputs ==
    {Output(ELA, v, 0, ph) : v \in {-10, 0, 29, 30, 70, 71}, ph \in {FoundationAddress, Alice}}

CoinbaseTxns ==
    {Tx(CoinBase, PayloadOf(CoinBase), ins, outs) :
        ins \in {<<Input(EmptyHash, MaxUint16, SequenceZero)>>, <<Input(EmptyHash, 0, SequenceZero)>>,
                 <<Input("T1", 0, SequenceZero)>>},
        outs \in SeqsUpTo(CoinbaseOutputs, MaxOutputs)}

\* Outputs of every shape the output check tells apart.
SanityOutputs ==
    {Output(ELA, 1, 0, Alice), Output(ELA, -1, 0, Alice), Output(ELA, 1, 1, Alice),
     Output(EmptyHash, 1, 0, Alice), Output("TOK", 0, 10, Bob), Output("TOK", 10, 0, Bob),
     Output("TOK", 0, 5, Bob),
     Output("TOK", 0, -1, Bob), Output("UNK", 0, 1, Alice),
     Output(ELA, 1, 0, [prefix |-> "Other", body |-> "x"]),
     Output(ELA, 2, 0, EmptyProgramHash)}

OutputShapeTxns ==
    {Tx(type, PayloadOf(type), <<Input("T1", 0, SequenceZero)>>, outs) :
        type \in {TransferAsset, RechargeToSideChain, TransferCrossChainAsset},
        outs \in SeqsUpTo(SanityOutputs, MaxOutputs)}

\* Transactions with broken attributes, programs and payloads.
PayloadShapeTxns ==
    {[Tx(TransferAsset, pld, <<Input("T1", 0, SequenceZero)>>, GoodOutputs(TransferAsset))
        EXCEPT !.Attributes = attrs, !.Programs = progs, !.TxType = type] :
        type \in {TransferAsset, RegisterAsset, CoinBase},
        pld \in {PayloadOf(TransferAsset), [kind |-> "PayloadUnknown"],
                 PayloadOf(RegisterAsset),
                 [PayloadOf(RegisterAsset) EXCEPT !.Asset.Precision = 19],
                 [PayloadOf(RegisterAsset) EXCEPT !.Asset.Precision = 17]},
        attrs \in {<<>>, <<"Nonce">>, <<"Bogus">>},
        progs \in {<<>>, <<[Code |-> "code", Parameter |-> "sig"]>>,
                   <<[Code |-> NIL, Parameter |-> "sig"]>>,
                   <<[Code |-> "code", Parameter |-> NIL]>>,
                   <<[Code |-> "malformed", Parameter |-> "sig"]>>}}

SanityTxns == InputShapeTxns \cup CoinbaseTxns \cup OutputShapeTxns \cup PayloadShapeTxns

IdleCache ==
    /\ writeSet = EmptyMap /\ store = EmptyMap /\ batch = <<>> /\ calls = 0
    /\ last = [op |-> "none"]

InitSanity ==
    /\ IdleCache
    /\ txn \in SanityTxns
    /\ sanity = NIL /\ context = NIL
    /\ feeErr = Pending /\ feeMap = Pending /\ fee = Pending
    /\ chain = <<>>

\* The node runs the sanity checks on the received transaction.
CallCheckTransactionSanity ==
    /\ sanity = NIL
    /\ sanity' = CheckTransactionSanity(txn)
    /\ UNCHANGED <<txn, context, feeErr, feeMap, fee, chain>>
    /\ UNCHANGED cacheVars

NextSanity == CallCheckTransactionSanity

SpecSanity == InitSanity /\ [][NextSanity]_vars

\* ------------------------------------------------ the fee checks at work
\* Inputs that refer to a native output, to two token outputs, and to a
\* transaction the ledger does not hold.
FeeInputs ==
    {Input("T1", 0, SequenceZero), Input("T1", 2, SequenceZero), Input("T1", 3, SequenceZero),
     Input("T9", 0, SequenceZero)}

\* Outputs in the native asset, in a token, and in an asset no input holds.
FeeOutputs ==
    {Output(ELA, 2, 0, Alice), Output("TOK", 0, 1, Alice), Output("TOK", 1, 2, Bob),
     Output("NEW", 3, 0, Bob)}

FeeTxns ==
    {Tx(type, PayloadOf(type), ins, outs) :
        type \in {TransferAsset, TransferCrossChainAsset},
        ins \in SeqsUpTo(FeeInputs, MaxInputs),
        outs \in SeqsUpTo(FeeOutputs, MaxOutputs)}

\* A recharge whose main chain transaction pays 5 to the genesis address for
\* 3 to Alice.
RechargeFeeTxn ==
    Tx(RechargeToSideChain,
       [kind |-> "PayloadRechargeToSideChain", MerkleProof |-> <<"proof", "p1">>,
        MainChainTransaction |->
           <<"tx", [Payload |-> [kind |-> "PayloadTransferCrossChainAsset",
                                 CrossChainAddresses |-> <<"EAlice">>,
                                 OutputIndexes |-> <<0>>, CrossChainAmounts |-> <<3>>],
                    Outputs |-> <<[Value |-> 5, ProgramHash |-> GenesisProgramHash]>>,
                    Nonce |-> "n1"], "sigA">>],
       <<>>, <<Output(ELA, 3, 0, Alice)>>)

AssetIDs == {ELA, "TOK", "NEW"}

InitFee ==
    /\ IdleCache
    /\ txn \in FeeTxns \cup {RechargeFeeTxn}
    /\ sanity = NIL /\ context = NIL
    /\ feeErr = Pending /\ feeMap = Pending /\ fee = Pending
    /\ chain = <<>>

CallCheckTransactionFee ==
    /\ feeErr = Pending
    /\ feeErr' = [err |-> CheckTransactionFee(txn)]
    /\ UNCHANGED <<txn, sanity, context, feeMap, fee, chain>>
    /\ UNCHANGED cacheVars

CallGetTxFeeMap ==
    /\ feeMap = Pending
    /\ feeMap' = GetTxFeeMap(txn)
    /\ UNCHANGED <<txn, sanity, context, feeErr, fee, chain>>
    /\ UNCHANGED cacheVars

CallGetTxFee(assetId) ==
    /\ fee = Pending
    /\ fee' = [assetId |-> assetId, amount |-> GetTxFee(txn, assetId)]
    /\ UNCHANGED <<txn, sanity, context, feeErr, feeMap, chain>>
    /\ UNCHANGED cacheVars

NextFee ==
    \/ CallCheckTransactionFee
    \/ CallGetTxFeeMap
    \/ \E assetId \in AssetIDs : CallGetTxFee(assetId)

SpecFee == InitFee /\ [][NextFee]_vars

\* ---------------------------------------------- the context check at work
\* The most entries of a cross chain payload of the model.
MaxCross == 2

\* Payload entries: address, output index, amount.
CrossEntries ==
    {<<"EAlice", 0, 1>>, <<"EBob", 1, 1>>, <<"XGenesis", 0, 1>>, <<"", 0, 1>>,
     <<"bogus", 0, 1>>, <<"EAlice", 0, -1>>, <<"EAlice", 0, 3>>, <<"EAlice", 2, 1>>}

CrossPayload(entries) ==
    [kind |-> "PayloadTransferCrossChainAsset",
     CrossChainAddresses |-> [i \in 1..Len(entries) |-> entries[i][1]],
     OutputIndexes |-> [i \in 1..Len(entries) |-> entries[i][2]],
     CrossChainAmounts |-> [i \in 1..Len(entries) |-> entries[i][3]]]

CrossPayloads ==
    {CrossPayload(es) : es \in SeqsUpTo(CrossEntries, MaxCross)}
    \cup {[CrossPayload(<<<<"EAlice", 0, 1>>>>) EXCEPT !.CrossChainAmounts = <<1, 1>>],
          [CrossPayload(<<<<"EAlice", 0, 1>>>>) EXCEPT !.OutputIndexes = <<>>],
          PayloadOf(TransferAsset)}

CrossChainTxns ==
    {Tx(TransferCrossChainAsset, pld, ins, outs) :
        pld \in CrossPayloads,
        ins \in {<<Input("T1", 0, SequenceZero)>>,
                 <<Input("T1", 0, SequenceZero), Input("T2", 0, SequenceZero)>>,
                 <<Input("T1", 1, SequenceZero), Input("T2", 0, SequenceZero)>>,
                 <<Input("T9", 0, SequenceZero)>>},
        outs \in {<<Output(ELA, 3, 0, EmptyProgramHash)>>,
                  <<Output(ELA, 3, 0, EmptyProgramHash), Output(ELA, 1, 0, Alice)>>,
                  <<Output(ELA, 3, 0, EmptyProgramHash), Output(ELA, 3, 0, EmptyProgramHash)>>,
                  <<Output(ELA, -1, 0, EmptyProgramHash)>>,
                  <<Output(ELA, 1, 0, Alice)>>}}

\* Transactions of the other kinds, over inputs that are spendable, spent,
\* locked, immature, worthless and unknown.
ContextInputs ==
    {<<Input("T1", 0, SequenceZero)>>, <<Input("T1", 1, SequenceZero)>>,
     <<Input("T1", 4, SequenceZero)>>, <<Input("T1", 4, MaxUint32Minus1)>>,
     <<Input("T2", 0, SequenceZero)>>, <<Input("T3", 0, SequenceZero)>>,
     <<Input("T1", 5, SequenceZero), Input("T2", 0, SequenceZero)>>,
     <<Input("T9", 0, SequenceZero)>>, <<>>,
     <<Input("T1", 0, SequenceZero), Input("T3", 0, SequenceZero)>>}

RegisterPayloads ==
    {[PayloadOf(RegisterAsset) EXCEPT !.Asset.Name = name, !.Amount = amount] :
        name \in {"New", "Token"}, amount \in {0, 1}}

ContextTxns ==
    {[Tx(type, pld, ins, outs) EXCEPT !.LockTime = lock, !.SigOK = sig, !.Hash = hash] :
        type \in {TransferAsset, RegisterAsset, CoinBase},
        pld \in RegisterPayloads \cup {PayloadOf(TransferAsset)},
        ins \in ContextInputs,
        outs \in {<<Output(ELA, 1, 0, Alice)>>,
                  <<Output(ELA, 1, 0, Alice), Output("NEW", 0, 0, Alice)>>,
                  <<Output(ELA, 1, 0, Alice), Output("NEW", 0, 0, Bob)>>,
                  <<Output(ELA, 1, 0, Alice), Output("NEW", 0, 10, Alice)>>},
        lock \in {0, 7}, sig \in BOOLEAN, hash \in {"h0", "h1"}}

\* Recharges over main chain transactions with up to MaxCross payload
\* entries, two outputs to the genesis address and one to another address.
CreditEntries ==
    {<<"EAlice", 0, 3>>, <<"EBob", 0, 3>>, <<"EAlice", 1, 2>>, <<"EBob", 2, 3>>,
     <<"bogus", 1, 2>>}

CreditMainChainTx(entries) ==
    [Payload |-> [kind |-> "PayloadTransferCrossChainAsset",
                  CrossChainAddresses |-> [i \in 1..Len(entries) |-> entries[i][1]],
                  OutputIndexes |-> [i \in 1..Len(entries) |-> entries[i][2]],
                  CrossChainAmounts |-> [i \in 1..Len(entries) |-> entries[i][3]]],
     Outputs |-> <<[Value |-> 5, ProgramHash |-> GenesisProgramHash],
                   [Value |-> 4, ProgramHash |-> GenesisProgramHash],
                   [Value |-> 5, ProgramHash |-> Alice]>>,
     Nonce |-> "n1"]

RechargeCreditTxns ==
    {Tx(RechargeToSideChain,
        [kind |-> "PayloadRechargeToSideChain", MerkleProof |-> <<"proof", "p1">>,
         MainChainTransaction |-> <<"tx", CreditMainChainTx(es), "sigA">>],
        <<>>, outs) :
        es \in SeqsUpTo(CreditEntries, MaxCross),
        outs \in SeqsUpTo({Output(ELA, 3, 0, Alice), Output(ELA, 3, 0, Bob),
                           Output(ELA, 2, 0, Alice), Output(ELA, 6, 0, Alice),
                           Output(ELA, 0, 0, Bob)}, MaxOutputs)}

\* The ledger the context checks run against holds the transaction h0.
InitContext ==
    /\ IdleCache
    /\ txn \in CrossChainTxns \cup ContextTxns \cup RechargeCreditTxns
    /\ sanity = NIL /\ context = NIL
    /\ feeErr = Pending /\ feeMap = Pending /\ fee = Pending
    /\ chain = <<[Hash |-> "h0", MainchainTxHash |-> NoMainchainTx]>>

CallCheckTransactionContext ==
    /\ context = NIL
    /\ context' = CheckTransactionContext(txn, chain)
    /\ UNCHANGED <<txn, sanity, feeErr, feeMap, fee, chain>>
    /\ UNCHANGED cacheVars

NextContext == CallCheckTransactionContext

SpecContext == InitContext /\ [][NextContext]_vars

\* ------------------------------------------------------------- admission
\* The most transactions the ledger of the model commits.
MaxChain == 2

\* The signed content of main chain transactions: two transfers to the
\* genesis address that differ in their nonce, and one of another kind.
MainChainContents ==
    {[Payload |-> [kind |-> "PayloadTransferCrossChainAsset",
                   CrossChainAddresses |-> <<"EAlice">>,
                   OutputIndexes |-> <<0>>, CrossChainAmounts |-> <<3>>],
      Outputs |-> <<[Value |-> 5, ProgramHash |-> GenesisProgramHash]>>,
      Nonce |-> n] : n \in {"n1", "n2"}}
    \cup {[Payload |-> [kind |-> "PayloadTransferAsset"],
           Outputs |-> <<[Value |-> 5, ProgramHash |-> GenesisProgramHash]>>,
           Nonce |-> "n3"]}

\* Their bytes under two signatures, and bytes that are no transaction.
MainChainBytes ==
    {<<"tx", u, sig>> : u \in MainChainContents, sig \in {"sigA", "sigB"}}
    \cup {<<"garbage">>}

RechargeTxns ==
    {[Tx(RechargeToSideChain,
         [kind |-> "PayloadRechargeToSideChain", MerkleProof |-> proof,
          MainChainTransaction |-> bytes],
         <<>>, outs) EXCEPT !.Hash = hash] :
        proof \in {<<"proof", "p1">>, <<"proof", "p2">>, <<"garbage">>},
        bytes \in MainChainBytes,
        outs \in {<<Output(ELA, 3, 0, Alice)>>, <<Output(ELA, 2, 0, Alice)>>,
                  <<Output(ELA, 3, 0, Alice), Output(ELA, 0, 0, Bob)>>},
        hash \in {"h1", "h2", "h3"}}

AdmitTxns ==
    RechargeTxns
    \cup {[Tx(TransferAsset, PayloadOf(TransferAsset), <<Input("T1", 0, SequenceZero)>>,
              <<Output(ELA, 1, 0, Alice)>>) EXCEPT !.Hash = hash] : hash \in {"h1", "h2"}}

InitAdmit ==
    /\ IdleCache
    /\ txn \in AdmitTxns
    /\ sanity = NIL /\ context = NIL
    /\ feeErr = Pending /\ feeMap = Pending /\ fee = Pending
    /\ chain = <<>>

\* The node receives another transaction.
Receive(t) ==
    /\ txn' = t
    /\ context' = NIL
    /\ UNCHANGED <<sanity, feeErr, feeMap, fee, chain>>
    /\ UNCHANGED cacheVars

\* The ledger commits the transaction the context check accepted: its hash
\* and the hash of the main chain transaction it embeds become known.
Persist ==
    /\ context = Success
    /\ Len(chain) < MaxChain
    /\ chain' = Append(chain,
          [Hash |-> txn.Hash,
           MainchainTxHash |->
              IF IsRechargeToSideChainTx(txn)
              THEN MainChainTxHash(DeserializeMainChainTx(txn.Payload.MainChainTransaction).tx)
              ELSE NoMainchainTx])
    /\ context' = NIL
    /\ UNCHANGED <<txn, sanity, feeErr, feeMap, fee>>
    /\ UNCHANGED cacheVars

NextAdmit ==
    \/ \E t \in AdmitTxns : Receive(t)
    \/ CallCheckTransactionContext
    \/ Persist

SpecAdmit == InitAdmit /\ [][NextAdmit]_vars



(***************************************************************************)
(* Claims about the staged state cache                                     *)
(***************************************************************************)

\* The batched operation the write-set entry w stands for.
ExpectedOp(w) ==
    IF w.IsDeleted
    THEN [kind |-> "BatchDelete", key |-> <<w.Prefix, w.Key>>, value |-> <<>>]
    ELSE [kind |-> "BatchPut", key |-> <<w.Prefix, w.Key>>, value |-> Serialize(w.Item)]

\* The last n operations of the batch ops are one operation per entry of ws.
EndsWithCommitOf(ops, ws) ==
    LET n == Cardinality(DOMAIN ws)
        from == Len(ops) - n IN
    /\ from >= 0
    /\ \A k \in DOMAIN ws : \E i \in (from + 1)..Len(ops) : ops[i] = ExpectedOp(ws[k])

\* C6: GetOrAdd(prefix, key, v) on a key absent from the write-set and from
\* the store stages a live entry holding v and returns v, the next
\* TryGet(prefix, key) returns v and the store is not written; on a
\* tombstoned entry it sets Item = v, clears IsDeleted and returns v.
C6_GetOrAddStagesOrRevives ==
    last.op = "GetOrAdd" =>
        LET k == last.key
            absent == /\ k \notin DOMAIN last.ws
                      /\ StoreKey(last.prefix, k) \notin DOMAIN last.st
                      /\ ~last.fault
            tombstoned == k \in DOMAIN last.ws /\ last.ws[k].IsDeleted IN
        /\ absent =>
              /\ last.item = last.value /\ last.err = NIL
              /\ k \in DOMAIN writeSet
              /\ writeSet[k] = [Prefix |-> last.prefix, Key |-> k,
                                Item |-> last.value, IsDeleted |-> FALSE]
              /\ TryGet(writeSet, store, last.prefix, k, FALSE)
                    = [item |-> last.value, err |-> NIL]
              /\ store = last.st /\ batch = last.bt
        /\ tombstoned =>
              /\ last.item = last.value /\ last.err = NIL
              /\ k \in DOMAIN writeSet
              /\ writeSet[k].Item = last.value
              /\ ~writeSet[k].IsDeleted

\* C6 witness: a GetOrAdd has just staged its value for a key that neither
\* the write-set nor the (non-empty) store held.
C6_Witness ==
    /\ last.op = "GetOrAdd" /\ ~last.fault
    /\ last.key \notin DOMAIN last.ws
    /\ StoreKey(last.prefix, last.key) \notin DOMAIN last.st
    /\ DOMAIN last.st # {}
    /\ last.item = last.value

\* C7 (as claimed): while an entry is tombstoned, TryGet for its key returns
\* the NotFound-equivalent (no item): neither the value staged before the
\* delete nor the value of the store.
C7_TombstonedReadsNotFound ==
    \A k \in DOMAIN writeSet : writeSet[k].IsDeleted =>
        \A p \in Prefixes : TryGet(writeSet, store, p, k, FALSE).item = NIL

\* C8: Commit issues one batched operation per write-set entry and no other
\* (BatchDelete of prefix ++ key for a tombstoned entry, BatchPut of
\* prefix ++ key and the serialized Item for a live one); once the store has
\* applied a batch that ends with them, a fresh session reads the staged
\* value of every live entry and NotFound for every tombstoned one.
C8_CommitFlushesEveryEntryOnce ==
    /\ last.op = "Commit" =>
          /\ Len(batch) = Len(last.bt) + Cardinality(DOMAIN writeSet)
          /\ SubSeq(batch, 1, Len(last.bt)) = last.bt
          /\ EndsWithCommitOf(batch, writeSet)
    /\ (last.op = "BatchCommit" /\ EndsWithCommitOf(last.bt, writeSet)) =>
          \A k \in DOMAIN writeSet :
              LET r == TryGet(EmptyMap, store, writeSet[k].Prefix, k, FALSE) IN
              IF writeSet[k].IsDeleted
              THEN r = [item |-> NIL, err |-> ErrDBNotFound]
              ELSE r = [item |-> writeSet[k].Item, err |-> NIL]

\* C8 witness: the store has applied the Commit of a write-set holding a
\* live entry and a tombstoned entry whose key the store held before.
C8_Witness ==
    /\ last.op = "BatchCommit" /\ last.prev = "Commit"
    /\ EndsWithCommitOf(last.bt, writeSet)
    /\ \E k \in DOMAIN writeSet : ~writeSet[k].IsDeleted
    /\ \E k \in DOMAIN writeSet :
          /\ writeSet[k].IsDeleted
          /\ StoreKey(writeSet[k].Prefix, k) \in DOMAIN last.st

\* C9 (as claimed): Commit consumes the write-set: it is empty once Commit has
\* returned, and a Commit that directly follows a Commit issues nothing.
C9_CommitConsumesWriteSet ==
    last.op = "Commit" =>
        /\ DOMAIN writeSet = {}
        /\ last.prev = "Commit" => batch = last.bt

(***************************************************************************)
(* Claims about the sanity checks                                          *)
(***************************************************************************)

\* Two inputs of t share their previous-output reference (TxID and Index).
HasDuplicateInputs(t) ==
    \E i, j \in 1..Len(t.Inputs) : i # j /\ t.Inputs[i].Previous = t.Inputs[j].Previous

WithinSizeBound(t) == t.Size > 0 /\ t.Size <= MaxBlockSize

\* C3 (as claimed): CheckTransactionSanity returns ErrInvalidInput for every
\* transaction within the size bound, of any kind, in which two inputs share
\* the same previous-output reference.
C3_DuplicateInputsRejectedAnyKind ==
    (sanity # NIL /\ WithinSizeBound(txn) /\ HasDuplicateInputs(txn))
        => sanity = ErrInvalidInput

\* C3 (amended): CheckTransactionSanity returns ErrInvalidInput for every
\* transaction within the size bound, of any kind but recharge-to-side-chain
\* (whose inputs are not checked), in which two inputs share the same
\* previous-output reference.
C3_DuplicateInputsRejected ==
    (sanity # NIL /\ WithinSizeBound(txn) /\ HasDuplicateInputs(txn)
       /\ ~IsRechargeToSideChainTx(txn))
        => sanity = ErrInvalidInput

\* C3 witness: a transfer with the same reference under two different
\* sequences was rejected with ErrInvalidInput.
C3_Witness ==
    /\ sanity = ErrInvalidInput
    /\ txn.TxType = TransferAsset /\ WithinSizeBound(txn)
    /\ Len(txn.Inputs) = 2
    /\ txn.Inputs[1].Previous = txn.Inputs[2].Previous
    /\ txn.Inputs[1].Sequence # txn.Inputs[2].Sequence
    /\ txn.Inputs[1].Previous.TxID # EmptyHash

\* The rewards of a coinbase: all of them, and those paid to the foundation.
TotalReward(t) == SumSeq([i \in 1..Len(t.Outputs) |-> t.Outputs[i].Value])

FoundationReward(t) ==
    SumSeq([i \in 1..Len(t.Outputs) |->
              IF t.Outputs[i].ProgramHash = FoundationAddress THEN t.Outputs[i].Value ELSE 0])

\* C4 (as claimed): a coinbase that passes the size, asset-precision,
\* attribute/program and payload checks is accepted by CheckTransactionSanity
\* iff it has exactly one input, the empty hash with index MaxUint16, and at
\* least two outputs with 10 * foundationReward >= 3 * totalReward.
C4_CoinbaseAcceptedIffThirtyPercent ==
    (/\ sanity # NIL /\ IsCoinBaseTx(txn)
     /\ CheckTransactionSize(txn) = NIL /\ CheckAssetPrecision(txn) = NIL
     /\ CheckAttributeProgram(txn) = NIL /\ CheckTransactionPayload(txn) = NIL)
        => (sanity = Success <=>
               /\ Len(txn.Inputs) = 1
               /\ txn.Inputs[1].Previous = [TxID |-> EmptyHash, Index |-> MaxUint16]
               /\ Len(txn.Outputs) >= 2
               /\ 10 * FoundationReward(txn) >= 3 * TotalReward(txn))

(***************************************************************************)
(* Claims about the fee checks                                             *)
(***************************************************************************)

\* The minimum fee of a transaction's kind.
RequiredFee(t) ==
    IF IsTransferCrossChainAssetTx(t) \/ IsRechargeToSideChainTx(t)
    THEN MinCrossChainTxFee ELSE MinTxFee

\* The values of the outputs in outs that satisfy sel, one per output.
ValuesOf(outs, sel(_), val(_)) ==
    [i \in 1..Len(outs) |-> IF sel(outs[i]) THEN val(outs[i]) ELSE 0]

\* The native balance and the token balance, every output counted once.
NativeBalanceOnce(t) ==
    LET native(o) == o.AssetID = ELA
        value(o) == o.Value IN
    SumSeq(ValuesOf(GetTxReference(t).refs, native, value))
        - SumSeq(ValuesOf(t.Outputs, native, value))

TokensBalancedOnce(t) ==
    LET token(o) == o.AssetID # ELA
        tokenValue(o) == o.TokenValue IN
    SumSeq(ValuesOf(GetTxReference(t).refs, token, tokenValue))
        = SumSeq(ValuesOf(t.Outputs, token, tokenValue))

\* C1 (as claimed): CheckTransactionFee succeeds exactly when the native
\* balance (referenced input values minus output values, every output
\* counted once) reaches the minimum fee of the transaction's kind and the
\* token values of the referenced outputs equal those of the outputs.
C1_FeeCheckCountsOutputsOnce ==
    (feeErr # Pending /\ GetTxReference(txn).err = NIL) =>
        (feeErr.err = NIL
            <=> (NativeBalanceOnce(txn) >= RequiredFee(txn) /\ TokensBalancedOnce(txn)))

\* The assets among the referenced outputs and the outputs of t.
AssetsOf(t) ==
    {GetTxReference(t).refs[i].AssetID : i \in 1..Len(GetTxReference(t).refs)}
        \cup {t.Outputs[k].AssetID : k \in 1..Len(t.Outputs)}

\* The fee of asset a: referenced values less output values of that asset.
FeeOfAsset(t, a) ==
    LET isA(o) == o.AssetID = a
        value(o) == o.Value IN
    SumSeq(ValuesOf(GetTxReference(t).refs, isA, value))
        - SumSeq(ValuesOf(t.Outputs, isA, value))

\* C5: for a transaction that is no recharge, GetTxFeeMap returns, when all
\* references resolve, a map over exactly the assets of the referenced
\* outputs and of the outputs with fee[asset] = referenced values - output
\* values (a missing side counting as zero); when a reference does not
\* resolve it returns an error and no map, and GetTxFee returns 0.
C5_FeeMapIsPerAssetBalance ==
    /\ (feeMap # Pending /\ ~IsRechargeToSideChainTx(txn)) =>
          IF GetTxReference(txn).err = NIL
          THEN /\ feeMap.err = NIL
               /\ DOMAIN feeMap.feeMap = AssetsOf(txn)
               /\ \A a \in AssetsOf(txn) : feeMap.feeMap[a] = FeeOfAsset(txn, a)
          ELSE feeMap.err # NIL /\ feeMap.feeMap = NIL
    /\ (fee # Pending /\ ~IsRechargeToSideChainTx(txn) /\ GetTxReference(txn).err # NIL) =>
          fee.amount = 0

\* C5 witness: the map of a transaction with an asset only its inputs hold
\* and an asset only its outputs hold has been computed.
C5_Witness ==
    /\ feeMap # Pending /\ ~IsRechargeToSideChainTx(txn)
    /\ feeMap.err = NIL
    /\ \E a, b \in DOMAIN feeMap.feeMap :
          /\ feeMap.feeMap[a] > 0 /\ \A k \in 1..Len(txn.Outputs) : txn.Outputs[k].AssetID # a
          /\ feeMap.feeMap[b] < 0
          /\ \A i \in 1..Len(txn.Inputs) : GetTxReference(txn).refs[i].AssetID # b

(***************************************************************************)
(* Claims about the context checks                                         *)
(***************************************************************************)

\* The cross chain check of CheckTransactionContext has failed on txn.
CrossChainCheckFailed ==
    /\ context # NIL
    /\ ~IsTxHashDuplicate(chain, txn.Hash)
    /\ CheckTransactionSignature(txn) = NIL
    /\ IsTransferCrossChainAssetTx(txn)
    /\ CheckTransferCrossChainAssetTransaction(txn) # NIL

\* C10 (as claimed): when CheckTransferCrossChainAssetTransaction fails on a
\* transfer-cross-chain-asset transaction the failure is only logged: the
\* register-asset, double-spend, UTXO-lock, fee and referenced-output checks
\* still run and their outcome is the returned code.
C10_CrossChainFailureOnlyLogged ==
    CrossChainCheckFailed => context = ChecksFromRegisterAsset(txn)

\* C10 (amended): when CheckTransferCrossChainAssetTransaction fails on a
\* transfer-cross-chain-asset transaction, CheckTransactionContext returns
\* ErrInvalidOutput at that point, whatever the later checks would say.
C10_CrossChainFailureReturnsInvalidOutput ==
    CrossChainCheckFailed => context = ErrInvalidOutput

\* C10 witness: the cross chain check has failed on a transaction the later
\* checks accept.
C10_Witness ==
    /\ CrossChainCheckFailed
    /\ CheckTransactionSanity(txn) = Success
    /\ ChecksFromRegisterAsset(txn) = Success
    /\ context = ErrInvalidOutput

\* The hash of the main chain transaction a recharge embeds (none when its
\* bytes are no transaction).
EmbeddedHash(t) ==
    IF DeserializeMainChainTx(t.Payload.MainChainTransaction).err # NIL THEN NoMainchainTx
    ELSE MainChainTxHash(DeserializeMainChainTx(t.Payload.MainChainTransaction).tx)

\* C2: once a recharge embedding a main chain transaction with hash h is
\* committed, CheckTransactionContext does not return Success for a recharge
\* whose embedded main chain transaction hashes to h, whatever its other
\* fields; no two committed recharges share a main chain transaction hash.
C2_RechargeNotReplayed ==
    /\ (context # NIL /\ IsRechargeToSideChainTx(txn) /\ EmbeddedHash(txn) # NoMainchainTx
          /\ IsMainchainTxHashDuplicate(chain, EmbeddedHash(txn)))
        => context # Success
    /\ \A i, j \in 1..Len(chain) :
          (i # j /\ chain[i].MainchainTxHash # NoMainchainTx)
              => chain[i].MainchainTxHash # chain[j].MainchainTxHash

\* C2 witness: a recharge is committed, and a recharge with another hash,
\* other proof bytes and another signature of the same main chain
\* transaction, which only the replay makes unacceptable, has been refused.
C2_Witness ==
    /\ Len(chain) >= 1
    /\ IsRechargeToSideChainTx(txn)
    /\ EmbeddedHash(txn) # NoMainchainTx
    /\ chain[1].MainchainTxHash = EmbeddedHash(txn)
    /\ ~IsTxHashDuplicate(chain, txn.Hash)
    /\ txn.Payload.MerkleProof = <<"proof", "p2">>
    /\ txn.Payload.MainChainTransaction[3] = "sigB"
    /\ CheckRechargeToSideChainTransaction(txn, <<>>) = NIL
    /\ context = ErrRechargeToSideChain

(***************************************************************************)
(* Claims about the asset precision check                                  *)
(***************************************************************************)

\* The amount of an output the precision rule speaks of, and its target
\* exponent: (Value, 8) for the native asset, (TokenValue, 18) otherwise.
PreciseAmount(o) == IF o.AssetID = ELA THEN o.Value ELSE o.TokenValue

TargetExponent(o) == IF o.AssetID = ELA THEN 8 ELSE 18

\* The amount of o is a multiple of 10^(T - precision of its asset).
AmountIsPrecise(o) ==
    DivisibleByPow10(PreciseAmount(o), TargetExponent(o) - Assets[o.AssetID].Precision)

\* C11 (as claimed): for a transaction other than RegisterAsset that passes
\* the size, input and output checks and whose outputs are in registered
\* assets, CheckTransactionSanity returns ErrAssetPrecision whenever some
\* output's amount (Value for the native asset, TokenValue for any other) is
\* not a multiple of 10^(T - precision), and the precision check passes when
\* every output's amount is such a multiple.
C11_PrecisionCheckedOnOutputAmount ==
    (/\ sanity # NIL /\ ~IsRegisterAssetTx(txn)
     /\ CheckTransactionSize(txn) = NIL /\ CheckTransactionInput(txn) = NIL
     /\ CheckTransactionOutput(txn) = NIL
     /\ \A i \in 1..Len(txn.Outputs) : txn.Outputs[i].AssetID \in DOMAIN Assets)
        => IF \E i \in 1..Len(txn.Outputs) : ~AmountIsPrecise(txn.Outputs[i])
           THEN sanity = ErrAssetPrecision
           ELSE sanity # ErrAssetPrecision

(***************************************************************************)
(* Claims about the recharge credit                                        *)
(***************************************************************************)

\* The main chain transaction txn embeds.
EmbeddedTx == DeserializeMainChainTx(txn.Payload.MainChainTransaction).tx

\* What the outputs of txn pay to the program hash ph.
CreditedTo(ph) ==
    SumSeq([k \in 1..Len(txn.Outputs) |->
              IF txn.Outputs[k].ProgramHash = ph THEN txn.Outputs[k].Value ELSE 0])

\* What the payload of the embedded transaction declares for ph: the
\* converted amounts of the entries that name its address and whose main
\* chain output pays the genesis program hash.
DeclaredFor(ph) ==
    LET pld == EmbeddedTx.Payload IN
    SumSeq([i \in 1..Len(pld.CrossChainAddresses) |->
              IF /\ Uint168FromAddress(pld.CrossChainAddresses[i]).err = NIL
                 /\ Uint168FromAddress(pld.CrossChainAddresses[i]).programHash = ph
                 /\ EmbeddedTx.Outputs[pld.OutputIndexes[i] + 1].ProgramHash
                       = GenesisProgramHash
              THEN ExchangeRateToFixed64(pld.CrossChainAmounts[i]) ELSE 0])

\* C12 (as claimed): whenever CheckRechargeToSideChainTransaction succeeds,
\* for every address the Values of the outputs paid to it add up to the
\* converted amounts of the payload entries that name it and pay the genesis
\* program hash; no positive output goes to an address no such entry names.
C12_RechargeCreditsWhatPayloadDeclares ==
    (/\ context # NIL /\ IsRechargeToSideChainTx(txn)
     /\ CheckRechargeToSideChainTransaction(txn, chain) = NIL)
        => \A ph \in {Alice, Bob, FoundationAddress} : CreditedTo(ph) = DeclaredFor(ph)

(***************************************************************************)
(* Claims about the isolation of prefixes in the staged state cache        *)
(***************************************************************************)

\* The last call named a key whose write-set entry was staged through
\* another prefix.
CalledThroughOtherPrefix ==
    /\ last.op \in {"GetOrAdd", "TryGet"}
    /\ last.key \in DOMAIN last.ws
    /\ last.ws[last.key].Prefix # last.prefix

\* C13 (as claimed): staged entries are isolated per (prefix, key): a
\* GetOrAdd or TryGet on (p2, k) returns what it would return had nothing
\* been staged for k through another prefix p1, and it leaves the entry
\* staged for (p1, k) as it was.
C13_PrefixesIsolated ==
    CalledThroughOtherPrefix =>
        LET k == last.key
            others == MapDel(last.ws, k)
            alone == IF last.op = "TryGet"
                     THEN TryGet(others, last.st, last.prefix, k, last.fault)
                     ELSE GetOrAdd(others, last.st, last.prefix, k, last.value, last.fault) IN
        /\ last.item = alone.item /\ last.err = alone.err
        /\ k \in DOMAIN writeSet /\ writeSet[k] = last.ws[k]

====
